---- MODULE Spec2Model ----
(***************************************************************************)
(* Model of backend/print-raw.py: the command-line entry point and the     *)
(* raw transfer operation print_raw_to_port(filepath, port).               *)
(*                                                                         *)
(* Characters are Unicode code points and bytes are integers 0..255.       *)
(* The environment of a run is: the number of positional arguments, the    *)
(* state of the source path, the bytes of the source file, the port name,  *)
(* the encoding of the standard output the status lines are printed to,    *)
(* and the outcome of each operating-system call on the destination.       *)
(***************************************************************************)
EXTENDS Integers, Sequences, FiniteSets, TLC

VARIABLES argc, srcState, fileBytes, port, stdoutEnc,
          pc, content, port_path, data, written, openedPath,
          srcOpen, dstOpen, exc, raised, out, reportedN,
          result, exitCode, trace

vars == <<argc, srcState, fileBytes, port, stdoutEnc,
          pc, content, port_path, data, written, openedPath,
          srcOpen, dstOpen, exc, raised, out, reportedN,
          result, exitCode, trace>>

env == <<argc, srcState, fileBytes, port, stdoutEnc>>

----------------------------------------------------------------------------
(* Bounds of the model.                                                    *)

MaxArgs == 3

MaxFileLen == 3

MaxPortLen == 2

(* Bytes a source file is built from: 'A', CR, LF and the two bytes of the *)
(* UTF-8 form of U+00E9 (a lone one of which is malformed UTF-8).          *)
FileByteSet == {65, 13, 10, 195, 169}

(* Characters a port name is built from: 'u', space and U+4E2D.            *)
PortCharSet == {117, 32, 20013}

SeqsUpTo(S, n) == UNION {[1..k -> S] : k \in 0..n}

----------------------------------------------------------------------------
(* Values.                                                                 *)

NoResult == -1

NoCount == -1

SrcStates == {"ok", "missing", "denied", "ioerror"}

DstOpenOutcomes == {"ok", "missing", "denied", "busy"}

StdoutEncodings == {"utf-8", "cp1252"}

(* '?' : the byte str.encode('ascii', errors='replace') substitutes.       *)
Placeholder == 63

(* U+2705, the first character of the success line.                        *)
CheckMark == 9989

(* U+274C, the first character of every error line.                        *)
CrossMark == 10060

(* The text of '\\\\.\\' : backslash backslash dot backslash.              *)
DevicePrefix == <<92, 92, 46, 92>>

----------------------------------------------------------------------------
(* open(filepath, 'r', encoding='utf-8').read(): strict UTF-8 decoding     *)
(* followed by universal-newline translation.                              *)

IsCont(b) == b >= 128 /\ b <= 191

(* Number of bytes of the UTF-8 sequence at the head of bs, 0 if malformed *)
Utf8Width(bs) ==
    LET b == bs[1] IN
    IF b < 128 THEN 1
    ELSE IF b >= 194 /\ b <= 223 /\ Len(bs) >= 2 /\ IsCont(bs[2]) THEN 2
    ELSE IF b >= 224 /\ b <= 239 /\ Len(bs) >= 3 /\ IsCont(bs[2]) /\ IsCont(bs[3])
            /\ LET v == (b - 224) * 4096 + (bs[2] - 128) * 64 + (bs[3] - 128)
               IN v >= 2048 /\ ~(v >= 55296 /\ v <= 57343) THEN 3
    ELSE IF b >= 240 /\ b <= 244 /\ Len(bs) >= 4
            /\ IsCont(bs[2]) /\ IsCont(bs[3]) /\ IsCont(bs[4])
            /\ LET v == (b - 240) * 262144 + (bs[2] - 128) * 4096
                        + (bs[3] - 128) * 64 + (bs[4] - 128)
               IN v >= 65536 /\ v <= 1114111 THEN 4
    ELSE 0

Utf8Value(bs, w) ==
    IF w = 1 THEN bs[1]
    ELSE IF w = 2 THEN (bs[1] - 192) * 64 + (bs[2] - 128)
    ELSE IF w = 3 THEN (bs[1] - 224) * 4096 + (bs[2] - 128) * 64 + (bs[3] - 128)
    ELSE (bs[1] - 240) * 262144 + (bs[2] - 128) * 4096
         + (bs[3] - 128) * 64 + (bs[4] - 128)

RECURSIVE Utf8Valid(_)
Utf8Valid(bs) ==
    IF bs = <<>> THEN TRUE
    ELSE LET w == Utf8Width(bs) IN
         w > 0 /\ Utf8Valid(SubSeq(bs, w + 1, Len(bs)))

RECURSIVE Utf8Decode(_)
Utf8Decode(bs) ==
    IF bs = <<>> THEN <<>>
    ELSE LET w == Utf8Width(bs) IN
         <<Utf8Value(bs, w)>> \o Utf8Decode(SubSeq(bs, w + 1, Len(bs)))

RECURSIVE UniversalNewlines(_)
UniversalNewlines(s) ==
    IF s = <<>> THEN <<>>
    ELSE IF s[1] = 13 /\ Len(s) >= 2 /\ s[2] = 10
         THEN <<10>> \o UniversalNewlines(SubSeq(s, 3, Len(s)))
    ELSE IF s[1] = 13 THEN <<10>> \o UniversalNewlines(Tail(s))
    ELSE <<s[1]>> \o UniversalNewlines(Tail(s))

ReadText(bs) == UniversalNewlines(Utf8Decode(bs))

----------------------------------------------------------------------------
(* content.encode('ascii', errors='replace')                               *)

RECURSIVE EncodeAscii_Ignore(_)
EncodeAscii_Ignore(s) ==
    IF s = <<>> THEN <<>>
    ELSE (IF s[1] < 128 THEN <<s[1]>> ELSE <<>>) \o EncodeAscii_Ignore(Tail(s))

RECURSIVE EncodeAscii(_)
EncodeAscii(s) ==
    IF s = <<>> THEN <<>>
    ELSE <<IF s[1] < 128 THEN s[1] ELSE Placeholder>> \o EncodeAscii(Tail(s))

----------------------------------------------------------------------------
(* port_path = f'\\\\.\\{port}'                                            *)

PortPath_Upper(p) ==
    DevicePrefix \o [i \in 1..Len(p) |->
                        IF p[i] >= 97 /\ p[i] <= 122 THEN p[i] - 32 ELSE p[i]]

PortPath(p) == DevicePrefix \o p

----------------------------------------------------------------------------
(* print(): the line is encoded with the encoding of standard output and   *)
(* raises UnicodeEncodeError when a character has no encoding.  The fixed  *)
(* parts of every line are ASCII except the leading mark; chars is the     *)
(* sequence of the characters of the line that are not fixed ASCII text.   *)

StdoutCanEncode(enc, c) ==
    \/ enc = "utf-8"
    \/ c < 128
    \/ (c >= 160 /\ c <= 255)

PrintOK(enc, chars) == \A i \in 1..Len(chars) : StdoutCanEncode(enc, chars[i])

----------------------------------------------------------------------------
(* The except clauses, in the order they are written.                      *)

HandlerFor_Swapped(e) ==
    IF e = "FileNotFoundError" THEN "permission"
    ELSE IF e = "PermissionError" THEN "notfound"
    ELSE "generic"

HandlerFor(e) ==
    IF e = "PermissionError" THEN "permission"
    ELSE IF e = "FileNotFoundError" THEN "notfound"
    ELSE "generic"

(* len(sys.argv) != 3, with sys.argv[0] the script name.                   *)
ArgCountOK_AtLeast(n) == n + 1 >= 3

ArgCountOK(n) == n + 1 = 3

Raise(kind, at) == Append(raised, [kind |-> kind, at |-> at])

----------------------------------------------------------------------------
Init ==
    /\ argc \in 0..MaxArgs
    /\ srcState \in SrcStates
    /\ fileBytes \in SeqsUpTo(FileByteSet, MaxFileLen)
    /\ port \in SeqsUpTo(PortCharSet, MaxPortLen)
    /\ stdoutEnc \in StdoutEncodings
    /\ (srcState # "ok" => fileBytes = <<>>)
    /\ (argc < 2 => srcState = "ok" /\ fileBytes = <<>> /\ port = <<>>)
    /\ pc = "main"
    /\ content = <<>>
    /\ port_path = <<>>
    /\ data = <<>>
    /\ written = <<>>
    /\ openedPath = <<>>
    /\ srcOpen = FALSE
    /\ dstOpen = FALSE
    /\ exc = "none"
    /\ raised = <<>>
    /\ out = <<>>
    /\ reportedN = NoCount
    /\ result = NoResult
    /\ exitCode = NoResult
    /\ trace = <<>>


----------------------------------------------------------------------------
(* __main__                                                                *)

(* Wrong argument count: the two usage lines, then sys.exit(1).            *)
MainUsage ==
    /\ pc = "main"
    /\ ~ArgCountOK(argc)
    /\ out' = out \o <<"usage", "example">>
    /\ exitCode' = 1
    /\ pc' = "exit"
    /\ UNCHANGED <<env, content, port_path, data, written, openedPath,
                   srcOpen, dstOpen, exc, raised, reportedN, result, trace>>

(* filepath = sys.argv[1]; port = sys.argv[2]; the call of the operation.  *)
MainCall ==
    /\ pc = "main"
    /\ ArgCountOK(argc)
    /\ pc' = "src_open"
    /\ trace' = Append(trace, "call")
    /\ UNCHANGED <<env, content, port_path, data, written, openedPath,
                   srcOpen, dstOpen, exc, raised, out, reportedN, result,
                   exitCode>>

(* sys.exit(print_raw_to_port(filepath, port))                             *)
SysExit ==
    /\ pc = "sys_exit"
    /\ exitCode' = result
    /\ pc' = "exit"
    /\ UNCHANGED <<env, content, port_path, data, written, openedPath,
                   srcOpen, dstOpen, exc, raised, out, reportedN, result, trace>>

(* An exception that leaves print_raw_to_port reaches the top level of the *)
(* script: the interpreter prints the traceback and exits with status 1.   *)
Unhandled ==
    /\ pc = "unhandled"
    /\ exitCode' = 1
    /\ pc' = "exit"
    /\ UNCHANGED <<env, content, port_path, data, written, openedPath,
                   srcOpen, dstOpen, exc, raised, out, reportedN, result, trace>>

----------------------------------------------------------------------------
(* print_raw_to_port: the try block                                        *)

(* with open(filepath, 'r', encoding='utf-8') as f:                        *)
OpenSource ==
    /\ pc = "src_open"
    /\ trace' = Append(trace, "src_open")
    /\ IF srcState = "ok"
       THEN /\ srcOpen' = TRUE
            /\ pc' = "src_read"
            /\ UNCHANGED <<exc, raised>>
       ELSE /\ exc' = (IF srcState = "missing" THEN "FileNotFoundError"
                       ELSE IF srcState = "denied" THEN "PermissionError"
                       ELSE "OSError")
            /\ raised' = Raise(exc', "src_open")
            /\ pc' = "except"
            /\ UNCHANGED srcOpen
    /\ UNCHANGED <<env, content, port_path, data, written, openedPath,
                   dstOpen, out, reportedN, result, exitCode>>

(* content = f.read(): malformed UTF-8 raises UnicodeDecodeError, and the  *)
(* operating system may fail the read.                                     *)
ReadSource ==
    /\ pc = "src_read"
    /\ trace' = Append(trace, "src_read")
    /\ pc' = "src_exit"
    /\ \E ioOk \in BOOLEAN :
         IF ~ioOk
         THEN /\ exc' = "OSError"
              /\ raised' = Raise("OSError", "src_read")
              /\ UNCHANGED content
         ELSE IF ~Utf8Valid(fileBytes)
         THEN /\ exc' = "UnicodeDecodeError"
              /\ raised' = Raise("UnicodeDecodeError", "src_read")
              /\ UNCHANGED content
         ELSE /\ content' = ReadText(fileBytes)
              /\ UNCHANGED <<exc, raised>>
    /\ UNCHANGED <<env, port_path, data, written, openedPath,
                   srcOpen, dstOpen, out, reportedN, result, exitCode>>

SrcExit_NoClose ==
    /\ pc = "src_exit"
    /\ trace' = Append(trace, "src_close")
    /\ pc' = IF exc = "none" THEN "port_path" ELSE "except"
    /\ UNCHANGED <<env, content, port_path, data, written, openedPath, srcOpen,
                   dstOpen, exc, raised, out, reportedN, result, exitCode>>

(* The end of the first with block: f is closed, whether the block ended   *)
(* normally or by an exception.                                            *)
SrcExit ==
    /\ pc = "src_exit"
    /\ trace' = Append(trace, "src_close")
    /\ srcOpen' = FALSE
    /\ pc' = IF exc = "none" THEN "port_path" ELSE "except"
    /\ UNCHANGED <<env, content, port_path, data, written, openedPath,
                   dstOpen, exc, raised, out, reportedN, result, exitCode>>

(* port_path = f'\\\\.\\{port}'                                            *)
BuildPortPath ==
    /\ pc = "port_path"
    /\ port_path' = PortPath(port)
    /\ pc' = "print_opening"
    /\ UNCHANGED <<env, content, data, written, openedPath, srcOpen, dstOpen,
                   exc, raised, out, reportedN, result, exitCode, trace>>

(* print(f'Opening printer port: {port_path}')                             *)
PrintOpening ==
    /\ pc = "print_opening"
    /\ IF PrintOK(stdoutEnc, port_path)
       THEN /\ out' = Append(out, "opening")
            /\ pc' = "print_sending"
            /\ UNCHANGED <<exc, raised>>
       ELSE /\ exc' = "UnicodeEncodeError"
            /\ raised' = Raise("UnicodeEncodeError", "print_opening")
            /\ pc' = "except"
            /\ UNCHANGED out
    /\ UNCHANGED <<env, content, port_path, data, written, openedPath,
                   srcOpen, dstOpen, reportedN, result, exitCode, trace>>

(* print(f'Sending {len(content)} characters...')                          *)
PrintSending ==
    /\ pc = "print_sending"
    /\ out' = Append(out, "sending")
    /\ reportedN' = Len(content)
    /\ pc' = "dst_open"
    /\ UNCHANGED <<env, content, port_path, data, written, openedPath,
                   srcOpen, dstOpen, exc, raised, result, exitCode, trace>>

(* with open(port_path, 'wb') as printer:                                  *)
OpenDest ==
    /\ pc = "dst_open"
    /\ trace' = Append(trace, "dst_open")
    /\ openedPath' = port_path
    /\ \E r \in DstOpenOutcomes :
         IF r = "ok"
         THEN /\ dstOpen' = TRUE
              /\ pc' = "encode"
              /\ UNCHANGED <<exc, raised>>
         ELSE /\ exc' = (IF r = "missing" THEN "FileNotFoundError"
                         ELSE IF r = "denied" THEN "PermissionError"
                         ELSE "OSError")
              /\ raised' = Raise(exc', "dst_open")
              /\ pc' = "except"
              /\ UNCHANGED dstOpen
    /\ UNCHANGED <<env, content, port_path, data, written, srcOpen, out,
                   reportedN, result, exitCode>>

(* data = content.encode('ascii', errors='replace')                        *)
Encode ==
    /\ pc = "encode"
    /\ data' = EncodeAscii(content)
    /\ trace' = Append(trace, "encode")
    /\ pc' = "write"
    /\ UNCHANGED <<env, content, port_path, written, openedPath, srcOpen,
                   dstOpen, exc, raised, out, reportedN, result, exitCode>>

Write_NoFlush ==
    /\ pc = "write"
    /\ trace' = Append(trace, "write")
    /\ written' = data
    /\ \E ok \in BOOLEAN :
         IF ok
         THEN /\ pc' = "dst_exit"
              /\ UNCHANGED <<exc, raised>>
         ELSE /\ exc' = "OSError"
              /\ raised' = Raise("OSError", "write")
              /\ pc' = "dst_exit"
    /\ UNCHANGED <<env, content, port_path, data, openedPath, srcOpen,
                   dstOpen, out, reportedN, result, exitCode>>

(* printer.write(data)                                                     *)
Write ==
    /\ pc = "write"
    /\ trace' = Append(trace, "write")
    /\ written' = data
    /\ \E ok \in BOOLEAN :
         IF ok
         THEN /\ pc' = "flush"
              /\ UNCHANGED <<exc, raised>>
         ELSE /\ exc' = "OSError"
              /\ raised' = Raise("OSError", "write")
              /\ pc' = "dst_exit"
    /\ UNCHANGED <<env, content, port_path, data, openedPath, srcOpen,
                   dstOpen, out, reportedN, result, exitCode>>

(* printer.flush()                                                         *)
Flush ==
    /\ pc = "flush"
    /\ trace' = Append(trace, "flush")
    /\ pc' = "dst_exit"
    /\ \E ok \in BOOLEAN :
         IF ok
         THEN UNCHANGED <<exc, raised>>
         ELSE /\ exc' = "OSError"
              /\ raised' = Raise("OSError", "flush")
    /\ UNCHANGED <<env, content, port_path, data, written, openedPath,
                   srcOpen, dstOpen, out, reportedN, result, exitCode>>

DstExit_NoClose ==
    /\ pc = "dst_exit"
    /\ IF exc = "none"
       THEN /\ trace' = Append(trace, "dst_close")
            /\ dstOpen' = FALSE
            /\ \E ok \in BOOLEAN :
                 IF ok
                 THEN /\ pc' = "print_success"
                      /\ UNCHANGED <<exc, raised>>
                 ELSE /\ exc' = "OSError"
                      /\ raised' = Raise("OSError", "dst_close")
                      /\ pc' = "except"
       ELSE /\ pc' = "except"
            /\ UNCHANGED <<trace, dstOpen, exc, raised>>
    /\ UNCHANGED <<env, content, port_path, data, written, openedPath,
                   srcOpen, out, reportedN, result, exitCode>>

(* The end of the second with block: printer is closed, whether the block  *)
(* ended normally or by an exception; the close itself may fail, and the   *)
(* handle is released even then.                                           *)
DstExit ==
    /\ pc = "dst_exit"
    /\ trace' = Append(trace, "dst_close")
    /\ dstOpen' = FALSE
    /\ \E ok \in BOOLEAN :
         IF ok
         THEN /\ pc' = IF exc = "none" THEN "print_success" ELSE "except"
              /\ UNCHANGED <<exc, raised>>
         ELSE /\ exc' = "OSError"
              /\ raised' = Raise("OSError", "dst_close")
              /\ pc' = "except"
    /\ UNCHANGED <<env, content, port_path, data, written, openedPath,
                   srcOpen, out, reportedN, result, exitCode>>

(* print('<check mark> Data sent successfully to printer port')            *)
PrintSuccess ==
    /\ pc = "print_success"
    /\ IF PrintOK(stdoutEnc, <<CheckMark>>)
       THEN /\ out' = Append(out, "success")
            /\ pc' = "return"
            /\ UNCHANGED <<exc, raised>>
       ELSE /\ exc' = "UnicodeEncodeError"
            /\ raised' = Raise("UnicodeEncodeError", "print_success")
            /\ pc' = "except"
            /\ UNCHANGED out
    /\ UNCHANGED <<env, content, port_path, data, written, openedPath,
                   srcOpen, dstOpen, reportedN, result, exitCode, trace>>

(* return 0                                                                *)
ReturnSuccess ==
    /\ pc = "return"
    /\ result' = 0
    /\ pc' = "sys_exit"
    /\ UNCHANGED <<env, content, port_path, data, written, openedPath,
                   srcOpen, dstOpen, exc, raised, out, reportedN, exitCode,
                   trace>>

----------------------------------------------------------------------------
(* print_raw_to_port: the except clauses.  A print that fails inside a     *)
(* clause is raised outside the try block and leaves the function.         *)

Handle(kind, lines) ==
    /\ pc = "except"
    /\ HandlerFor(exc) = kind
    /\ IF PrintOK(stdoutEnc, <<CrossMark>>)
       THEN /\ out' = out \o lines
            /\ result' = 1
            /\ exc' = "none"
            /\ pc' = "sys_exit"
            /\ UNCHANGED raised
       ELSE /\ exc' = "UnicodeEncodeError"
            /\ raised' = Raise("UnicodeEncodeError", "handler")
            /\ pc' = "unhandled"
            /\ UNCHANGED <<out, result>>
    /\ UNCHANGED <<env, content, port_path, data, written, openedPath,
                   srcOpen, dstOpen, reportedN, exitCode, trace>>

(* except PermissionError:                                                 *)
HandlePermission == Handle("permission", <<"permission">>)

(* except FileNotFoundError as e:                                          *)
HandleNotFound == Handle("notfound", <<"notfound", "port_hint">>)

(* except Exception as e:                                                  *)
HandleGeneric == Handle("generic", <<"generic">>)

----------------------------------------------------------------------------
Next ==
    \/ MainUsage
    \/ MainCall
    \/ OpenSource
    \/ ReadSource
    \/ SrcExit
    \/ BuildPortPath
    \/ PrintOpening
    \/ PrintSending
    \/ OpenDest
    \/ Encode
    \/ Write
    \/ Flush
    \/ DstExit
    \/ PrintSuccess
    \/ ReturnSuccess
    \/ HandlePermission
    \/ HandleNotFound
    \/ HandleGeneric
    \/ SysExit
    \/ Unhandled

Spec == Init /\ [][Next]_vars


----------------------------------------------------------------------------
(* Vocabulary of the properties.                                           *)

Has(ev) == \E i \in DOMAIN trace : trace[i] = ev

Idx(ev) == CHOOSE i \in DOMAIN trace : trace[i] = ev

Before(a, b) == Has(b) => (Has(a) /\ Idx(a) < Idx(b))

Emitted(k) == \E i \in DOMAIN out : out[i] = k

Called == Has("call")

Finished == pc = "exit" /\ Called

(* The failure the except clauses were entered with.                       *)
FailedInTry == raised # <<>> /\ raised[1].at # "handler"

Cause ==
    LET n == IF raised[Len(raised)].at = "handler" THEN Len(raised) - 1
             ELSE Len(raised)
    IN raised[n]

ErrorDiagnostics == {"permission", "notfound", "generic"}

(* The function has been left, by return or by an exception.               *)
LeftFunction == pc \in {"sys_exit", "unhandled", "exit"} /\ Called

----------------------------------------------------------------------------
(* C1: the result of print_raw_to_port is 0 exactly when the source was    *)
(* fully read, the destination was opened, the complete encoded payload    *)
(* was passed to write and flush was called, all without a failure; in     *)
(* every other run the result is 1.                                        *)
C1_ResultIffComplete ==
    Finished =>
      LET complete == /\ Has("src_read")
                      /\ Has("dst_open")
                      /\ Has("write")
                      /\ Len(written) = Len(content)
                      /\ Has("flush")
                      /\ raised = <<>>
      IN /\ (result = 0 <=> complete)
         /\ (~complete => result = 1)

(* C2: when the source path does not exist the run ends with exit code 1   *)
(* and the file-not-found diagnostic, and the destination is never opened, *)
(* written or flushed.                                                     *)
C2_MissingSource ==
    (Called /\ srcState = "missing") =>
      /\ ~Has("dst_open") /\ ~Has("write") /\ ~Has("flush")
      /\ (pc = "exit" => exitCode = 1 /\ Emitted("notfound"))

(* C3: with a number of positional arguments other than two the program    *)
(* prints the usage line and the example line and exits with code 1, and   *)
(* the transfer operation is never called: no source and no destination    *)
(* is opened.                                                              *)
C3_UsageOnWrongArgCount ==
    (argc # 2) =>
      /\ pc \in {"main", "exit"}
      /\ trace = <<>>
      /\ ~srcOpen /\ ~dstOpen
      /\ result = NoResult
      /\ (pc = "exit" => exitCode = 1 /\ out = <<"usage", "example">>)

C3_Witness == pc = "exit" /\ argc > 2 /\ out = <<"usage", "example">>

(* C4: the bytes passed to write are the character-by-character encoding   *)
(* of the content, a character below 128 as its own byte and any other as  *)
(* the placeholder byte; their number is the character count reported in   *)
(* the Sending line; and a run in which nothing fails returns 0 whatever   *)
(* the content is.                                                         *)
C4_PayloadIsReplacedAscii ==
    /\ Has("write") =>
         /\ Len(written) = Len(content)
         /\ \A i \in 1..Len(content) :
              written[i] = IF content[i] < 128 THEN content[i] ELSE 63
         /\ Emitted("sending")
         /\ reportedN = Len(written)
    /\ (Finished /\ raised = <<>>) => (result = 0 /\ Has("write"))

C4_Witness ==
    /\ pc = "exit" /\ result = 0
    /\ Len(content) >= 2
    /\ \E i \in 1..Len(content) : content[i] >= 128 /\ written[i] = 63
    /\ \E i \in 1..Len(content) : content[i] < 128 /\ written[i] = content[i]

(* C5 as written: the permission diagnostic is emitted only when opening   *)
(* the destination is denied, the file-not-found diagnostic only when the  *)
(* source path does not resolve to a readable file, and every other        *)
(* failure is reported with the generic diagnostic.                        *)
C5_DiagnosticKinds ==
    /\ Emitted("permission") =>
         (Cause.at = "dst_open" /\ Cause.kind = "PermissionError")
    /\ Emitted("notfound") =>
         (Cause.at = "src_open" /\ srcState # "ok")
    /\ (Finished /\ FailedInTry
          /\ ~(Cause.at = "dst_open" /\ Cause.kind = "PermissionError")
          /\ Cause.at # "src_open") => Emitted("generic")

(* C5 as amended: the diagnostic follows the kind of the exception, not    *)
(* the step that raised it.  The permission diagnostic is emitted only     *)
(* for a PermissionError, the file-not-found diagnostic only for a         *)
(* FileNotFoundError, the generic diagnostic only for any other            *)
(* exception; at most one of them is emitted; and a failed run whose       *)
(* standard output can encode the error line emits the one of its kind,    *)
(* while a run whose standard output cannot emits none and has no result.  *)
C5_DiagnosticByExceptionKind ==
    /\ Emitted("permission") => (FailedInTry /\ Cause.kind = "PermissionError")
    /\ Emitted("notfound") =>
         (FailedInTry /\ Cause.kind = "FileNotFoundError" /\ Emitted("port_hint"))
    /\ Emitted("generic") =>
         (FailedInTry /\ Cause.kind \notin {"PermissionError", "FileNotFoundError"})
    /\ Cardinality({k \in ErrorDiagnostics : Emitted(k)}) <= 1
    /\ (Finished /\ FailedInTry) =>
         IF stdoutEnc = "utf-8"
         THEN /\ result = 1
              /\ Cause.kind = "PermissionError" => Emitted("permission")
              /\ Cause.kind = "FileNotFoundError" => Emitted("notfound")
              /\ Cause.kind \notin {"PermissionError", "FileNotFoundError"}
                   => Emitted("generic")
         ELSE /\ result = NoResult
              /\ \A k \in ErrorDiagnostics : ~Emitted(k)

C5_Witness ==
    /\ pc = "exit"
    /\ Emitted("notfound")
    /\ Cause.at = "dst_open"
    /\ srcState = "ok"

(* C6: once the function is left, on the success path and on every error   *)
(* path, every handle that was opened has been closed.                     *)
C6_HandlesClosedOnExit ==
    (pc \in {"except", "print_success", "return"} \/ LeftFunction) =>
      /\ ~srcOpen
      /\ ~dstOpen
      /\ Has("src_read") => Has("src_close")
      /\ Has("encode") => Has("dst_close")

C6_Witness ==
    /\ pc = "exit"
    /\ result = 1
    /\ Has("src_close") /\ Has("dst_close")
    /\ raised # <<>> /\ raised[1].at = "write"

(* C7: every failure at any step, printing a status line included, is      *)
(* caught inside print_raw_to_port and turned into a diagnostic and the    *)
(* return value 1; no run ends in an unhandled fault.                      *)
C7_AllFailuresCaught ==
    /\ pc # "unhandled"
    /\ Finished =>
         /\ result \in {0, 1}
         /\ raised # <<>> =>
              (result = 1 /\ \E k \in ErrorDiagnostics : Emitted(k))

(* C8: the path passed to the open of the destination is the four          *)
(* characters \\.\ followed by the port name, character for character.     *)
C8_PortPathIsPrefixPlusPort ==
    Has("dst_open") =>
      /\ Len(openedPath) = 4 + Len(port)
      /\ SubSeq(openedPath, 1, 4) = <<92, 92, 46, 92>>
      /\ \A i \in 1..Len(port) : openedPath[4 + i] = port[i]

C8_Witness ==
    /\ Has("dst_open")
    /\ port = <<32, 117>>
    /\ openedPath = <<92, 92, 46, 92, 32, 117>>

(* C9 as written: source opened and read, then the content encoded, then   *)
(* the destination opened, then write, then flush, then the report; the    *)
(* encoding happens before the destination is opened.                      *)
C9_StrictOrder ==
    /\ Before("src_open", "src_read")
    /\ Before("src_read", "encode")
    /\ Before("encode", "dst_open")
    /\ Before("dst_open", "write")
    /\ Before("write", "flush")
    /\ Emitted("success") => Has("flush")

(* C9 as amended: source opened, read and closed, then the destination     *)
(* opened, then the content encoded while the destination is open, then    *)
(* write, then flush, then the destination closed, and the success line    *)
(* only after that.                                                        *)
C9_OrderAsCoded ==
    /\ Before("src_open", "src_read")
    /\ Before("src_read", "src_close")
    /\ Before("src_close", "dst_open")
    /\ Before("dst_open", "encode")
    /\ Before("encode", "write")
    /\ Before("write", "flush")
    /\ Has("encode") => (Has("dst_close") \/ dstOpen)
    /\ Emitted("success") =>
         (Has("flush") /\ Has("dst_close") /\ Idx("flush") < Idx("dst_close"))
    /\ result = 0 => Emitted("success")

C9_Witness ==
    /\ pc = "exit"
    /\ result = 0
    /\ trace = <<"call", "src_open", "src_read", "src_close", "dst_open",
                 "encode", "write", "flush", "dst_close">>

(* C10: the source handle and the destination handle are never open at     *)
(* the same time: the source is closed before the destination is opened.   *)
C10_AtMostOneHandleOpen ==
    /\ ~(srcOpen /\ dstOpen)
    /\ Has("dst_open") =>
         (~srcOpen /\ Has("src_close") /\ Idx("src_close") < Idx("dst_open"))

C10_Witness ==
    /\ dstOpen
    /\ ~srcOpen
    /\ exc # "none"
    /\ Has("src_close")

====
